---- MODULE Spec2Model ----
(***************************************************************************)
(* Smart task manager: an AVL tree keyed by task priority with an id map   *)
(* (SmartTaskManager.h) and the interactive shell that renumbers           *)
(* priorities on insert / status change / delete (Main.cpp).               *)
(*                                                                         *)
(* Nodes live in a heap of addresses; Nil is the null pointer.  idMap maps *)
(* an id to a node address, exactly as unordered_map<string, Node*>.       *)
(***************************************************************************)
EXTENDS Integers, Sequences, FiniteSets, TLC

VARIABLES heap, root, idMap, tasks, db, dbFault, out, crashed

vars == <<heap, root, idMap, tasks, db, dbFault, out, crashed>>

---------------------------------------------------------------------------
(* Bounds of the model *)

\* most tasks the shell is let to hold at once
MaxTasks == 3

\* most nodes of a tree driven through AVLTree::insert directly
MaxNodes == 4

\* largest priority the shell lets a task reach (deletes leave gaps, so the
\* priorities of a run grow without limit)
MaxPriority == 4

\* keys handed to AVLTree::insert directly
MaxKey == 4

\* longest list handed to AVLTree::rebuild directly
MaxRebuildLen == 2

Ids == {"a", "b", "c"}

\* one more id, for the runs that need four tasks
WideIds == Ids \cup {"d"}

Descriptions == {"desc"}

Categories == {"cat"}

\* <<years, months, days, hours>> as typed at the prompts of the shell
DeadlineInputs == {<<0, 0, 0, 5>>, <<0, 0, 1, 0>>}

\* the prompts answered with hours only (getIntInput takes any integer, a
\* negative one too)
HourInputs == {<<0, 0, 0, 5>>, <<0, 0, 0, 10>>, <<0, 0, 0, 20>>, <<0, 0, 0, -1>>}

---------------------------------------------------------------------------
(* Task and Node *)

Nil == 0

Task(i, d, p, c, s, rH, dlDetails) ==
    [id |-> i, description |-> d, priority |-> p, category |-> c,
     status |-> s, remainingHours |-> rH, deadlineDetails |-> dlDetails]

Node(t) == [task |-> t, key |-> t.priority, left |-> Nil, right |-> Nil, height |-> 1]

Max(a, b) == IF a > b THEN a ELSE b

\* new Node: the lowest address not in use
NewAddr(h) ==
    CHOOSE a \in 1..(Cardinality(DOMAIN h) + 1) :
        a \notin DOMAIN h /\ \A b \in 1..(a - 1) : b \in DOMAIN h

\* delete node
Free(h, node) == [a \in DOMAIN h \ {node} |-> h[a]]

\* idMap.erase(id)
Erase(m, id) == [i \in DOMAIN m \ {id} |-> m[i]]

\* idMap[id] = node
Put(m, id, node) == [i \in DOMAIN m \cup {id} |-> IF i = id THEN node ELSE m[i]]

EmptyMap == [i \in {} |-> Nil]

---------------------------------------------------------------------------
(* AVLTree private helpers; h is the heap, the result carries the new heap *)

getHeight(h, node) == IF node # Nil THEN h[node].height ELSE 0

getBalance(h, node) ==
    IF node # Nil THEN getHeight(h, h[node].left) - getHeight(h, h[node].right) ELSE 0

updateHeight(h, node) ==
    IF node # Nil
    THEN [h EXCEPT ![node].height =
              1 + Max(getHeight(h, h[node].left), getHeight(h, h[node].right))]
    ELSE h

rotateLeft(h, node) ==
    LET newRoot == h[node].right
        h1 == [h EXCEPT ![node].right = h[newRoot].left]
        h2 == [h1 EXCEPT ![newRoot].left = node]
        h3 == updateHeight(h2, node)
        h4 == updateHeight(h3, newRoot)
    IN  [heap |-> h4, ret |-> newRoot]

rotateRight(h, node) ==
    LET newRoot == h[node].left
        h1 == [h EXCEPT ![node].left = h[newRoot].right]
        h2 == [h1 EXCEPT ![newRoot].right = node]
        h3 == updateHeight(h2, node)
        h4 == updateHeight(h3, newRoot)
    IN  [heap |-> h4, ret |-> newRoot]

rotateLeftRight(h, node) ==
    LET r == rotateLeft(h, h[node].left)
        h1 == [r.heap EXCEPT ![node].left = r.ret]
    IN  rotateRight(h1, node)

rotateRightLeft(h, node) ==
    LET r == rotateRight(h, h[node].right)
        h1 == [r.heap EXCEPT ![node].right = r.ret]
    IN  rotateLeft(h1, node)

\* balance without the double rotations: a left-right or right-left case is
\* answered with a single rotation
balanceSingleRotation(h, node) ==
    LET balanceFactor == getBalance(h, node)
    IN  IF balanceFactor > 1
        THEN rotateRight(h, node)
        ELSE IF balanceFactor < -1
        THEN rotateLeft(h, node)
        ELSE [heap |-> h, ret |-> node]

balance(h, node) ==
    LET balanceFactor == getBalance(h, node)
    IN  IF balanceFactor > 1
        THEN IF getBalance(h, h[node].left) < 0
             THEN rotateLeftRight(h, node)
             ELSE rotateRight(h, node)
        ELSE IF balanceFactor < -1
        THEN IF getBalance(h, h[node].right) > 0
             THEN rotateRightLeft(h, node)
             ELSE rotateLeft(h, node)
        ELSE [heap |-> h, ret |-> node]

\* insertHelper without the throw: a priority equal to a key goes to the
\* right subtree
RECURSIVE insertHelperKeepsDuplicates(_, _, _, _)
insertHelperKeepsDuplicates(h, m, node, task) ==
    IF node = Nil
    THEN LET newNode == NewAddr(h)
         IN  [heap  |-> [a \in DOMAIN h \cup {newNode} |->
                            IF a = newNode THEN Node(task) ELSE h[a]],
              idMap |-> Put(m, task.id, newNode),
              ret   |-> newNode,
              threw |-> FALSE]
    ELSE IF task.priority < h[node].key
    THEN LET r  == insertHelperKeepsDuplicates(h, m, h[node].left, task)
             h1 == [r.heap EXCEPT ![node].left = r.ret]
             b  == balance(updateHeight(h1, node), node)
         IN  [heap |-> b.heap, idMap |-> r.idMap, ret |-> b.ret, threw |-> FALSE]
    ELSE LET r  == insertHelperKeepsDuplicates(h, m, h[node].right, task)
             h1 == [r.heap EXCEPT ![node].right = r.ret]
             b  == balance(updateHeight(h1, node), node)
         IN  [heap |-> b.heap, idMap |-> r.idMap, ret |-> b.ret, threw |-> FALSE]

\* Result: heap, idMap, ret (the new subtree root), threw (duplicate priority).
\* A throw unwinds before any assignment of the frames above it, so the heap
\* and the map are those at the point of the throw.
RECURSIVE insertHelper(_, _, _, _)
insertHelper(h, m, node, task) ==
    IF node = Nil
    THEN LET newNode == NewAddr(h)
         IN  [heap  |-> [a \in DOMAIN h \cup {newNode} |->
                            IF a = newNode THEN Node(task) ELSE h[a]],
              idMap |-> Put(m, task.id, newNode),
              ret   |-> newNode,
              threw |-> FALSE]
    ELSE IF task.priority < h[node].key
    THEN LET r == insertHelper(h, m, h[node].left, task)
         IN  IF r.threw THEN r
             ELSE LET h1 == [r.heap EXCEPT ![node].left = r.ret]
                      b  == balance(updateHeight(h1, node), node)
                  IN  [heap |-> b.heap, idMap |-> r.idMap, ret |-> b.ret, threw |-> FALSE]
    ELSE IF task.priority > h[node].key
    THEN LET r == insertHelper(h, m, h[node].right, task)
         IN  IF r.threw THEN r
             ELSE LET h1 == [r.heap EXCEPT ![node].right = r.ret]
                      b  == balance(updateHeight(h1, node), node)
                  IN  [heap |-> b.heap, idMap |-> r.idMap, ret |-> b.ret, threw |-> FALSE]
    ELSE [heap |-> h, idMap |-> m, ret |-> node, threw |-> TRUE]

\* findMin without the walk to the left: the subtree's root is taken for its
\* minimum
findMinStopsAtRoot(h, node) == node

RECURSIVE findMin(_, _)
findMin(h, node) ==
    IF node # Nil /\ h[node].left # Nil THEN findMin(h, h[node].left) ELSE node

\* deleteHelper with idMap.erase(node->task.id) moved below the copy of the
\* successor's payload: with two children the id erased is the successor's
RECURSIVE deleteHelperEraseAfterCopy(_, _, _, _)
deleteHelperEraseAfterCopy(h, m, node, key) ==
    IF node = Nil
    THEN [heap |-> h, idMap |-> m, ret |-> Nil]
    ELSE IF key < h[node].key
    THEN LET r  == deleteHelperEraseAfterCopy(h, m, h[node].left, key)
             h1 == [r.heap EXCEPT ![node].left = r.ret]
             b  == balance(updateHeight(h1, node), node)
         IN  [heap |-> b.heap, idMap |-> r.idMap, ret |-> b.ret]
    ELSE IF key > h[node].key
    THEN LET r  == deleteHelperEraseAfterCopy(h, m, h[node].right, key)
             h1 == [r.heap EXCEPT ![node].right = r.ret]
             b  == balance(updateHeight(h1, node), node)
         IN  [heap |-> b.heap, idMap |-> r.idMap, ret |-> b.ret]
    ELSE IF h[node].left = Nil \/ h[node].right = Nil
    THEN LET temp == IF h[node].left # Nil THEN h[node].left ELSE h[node].right
         IN  [heap |-> Free(h, node), idMap |-> Erase(m, h[node].task.id), ret |-> temp]
    ELSE LET minRight == findMin(h, h[node].right)
             h1 == [h EXCEPT ![node].task = h[minRight].task,
                             ![node].key  = h[minRight].key]
             m1 == Erase(m, h1[node].task.id)
             r  == deleteHelperEraseAfterCopy(h1, m1, h1[node].right, h[minRight].key)
             h2 == [r.heap EXCEPT ![node].right = r.ret]
             b  == balance(updateHeight(h2, node), node)
         IN  [heap |-> b.heap, idMap |-> r.idMap, ret |-> b.ret]

RECURSIVE deleteHelper(_, _, _, _)
deleteHelper(h, m, node, key) ==
    IF node = Nil
    THEN [heap |-> h, idMap |-> m, ret |-> Nil]
    ELSE IF key < h[node].key
    THEN LET r  == deleteHelper(h, m, h[node].left, key)
             h1 == [r.heap EXCEPT ![node].left = r.ret]
             b  == balance(updateHeight(h1, node), node)
         IN  [heap |-> b.heap, idMap |-> r.idMap, ret |-> b.ret]
    ELSE IF key > h[node].key
    THEN LET r  == deleteHelper(h, m, h[node].right, key)
             h1 == [r.heap EXCEPT ![node].right = r.ret]
             b  == balance(updateHeight(h1, node), node)
         IN  [heap |-> b.heap, idMap |-> r.idMap, ret |-> b.ret]
    ELSE LET m1 == Erase(m, h[node].task.id)
         IN  IF h[node].left = Nil \/ h[node].right = Nil
             THEN LET temp == IF h[node].left # Nil THEN h[node].left ELSE h[node].right
                  IN  [heap |-> Free(h, node), idMap |-> m1, ret |-> temp]
             ELSE LET minRight == findMin(h, h[node].right)
                      h1 == [h EXCEPT ![node].task = h[minRight].task,
                                      ![node].key  = h[minRight].key]
                      r  == deleteHelper(h1, m1, h1[node].right, h[minRight].key)
                      h2 == [r.heap EXCEPT ![node].right = r.ret]
                      b  == balance(updateHeight(h2, node), node)
                  IN  [heap |-> b.heap, idMap |-> r.idMap, ret |-> b.ret]

RECURSIVE inOrder(_, _)
inOrder(h, node) ==
    IF node = Nil THEN <<>>
    ELSE inOrder(h, h[node].left) \o <<h[node].task>> \o inOrder(h, h[node].right)

RECURSIVE clear(_, _)
clear(h, node) ==
    IF node = Nil THEN h
    ELSE Free(clear(clear(h, h[node].left), h[node].right), node)

---------------------------------------------------------------------------
(* AVLTree public operations on a tree value [heap, root, idMap] *)

EmptyTree == [heap |-> [a \in {} |-> Nil], root |-> Nil, idMap |-> EmptyMap]

\* result: the tree after the call and the exception it threw ("" for none)
insert(t, task) ==
    IF task.id \in DOMAIN t.idMap
    THEN [tree |-> t, threw |-> "Task with the same ID already exists."]
    ELSE LET r == insertHelper(t.heap, t.idMap, t.root, task)
         IN  IF r.threw
             THEN [tree |-> t, threw |-> "Duplicate priority encountered."]
             ELSE [tree |-> [heap |-> r.heap, root |-> r.ret, idMap |-> r.idMap],
                   threw |-> ""]

\* the loop of rebuild over tasks[i..], on the tree built so far
RECURSIVE rebuildFrom(_, _, _)
rebuildFrom(t, ts, i) ==
    IF i > Len(ts)
    THEN [tree |-> t, threw |-> ""]
    ELSE LET r == insertHelper(t.heap, t.idMap, t.root, ts[i])
         IN  IF r.threw
             THEN [tree |-> t, threw |-> "Duplicate priority encountered."]
             ELSE rebuildFrom([heap |-> r.heap, root |-> r.ret, idMap |-> r.idMap],
                              ts, i + 1)

rebuild(t, ts) ==
    rebuildFrom([heap |-> clear(t.heap, t.root), root |-> Nil, idMap |-> EmptyMap], ts, 1)

updateTaskStatus(t, id, newStatus) ==
    IF id \notin DOMAIN t.idMap
    THEN [tree |-> t, threw |-> "Task ID not found."]
    ELSE [tree |-> [t EXCEPT !.heap[t.idMap[id]].task.status = newStatus],
          threw |-> ""]

\* deleteTask without the throw: an id that is not in the map is passed over
\* in silence
deleteTaskSilent(t, id) ==
    IF id \notin DOMAIN t.idMap
    THEN [tree |-> t, threw |-> ""]
    ELSE LET key == t.heap[t.idMap[id]].key
             r   == deleteHelper(t.heap, t.idMap, t.root, key)
         IN  [tree |-> [heap |-> r.heap, root |-> r.ret, idMap |-> r.idMap],
              threw |-> ""]

deleteTask(t, id) ==
    IF id \notin DOMAIN t.idMap
    THEN [tree |-> t, threw |-> "Task ID not found."]
    ELSE LET key == t.heap[t.idMap[id]].key
             r   == deleteHelper(t.heap, t.idMap, t.root, key)
         IN  [tree |-> [heap |-> r.heap, root |-> r.ret, idMap |-> r.idMap],
              threw |-> ""]

\* Task* as a sequence: <<>> is nullptr, <<task>> the record pointed to
search(t, id) ==
    IF id \in DOMAIN t.idMap THEN <<t.heap[t.idMap[id]].task>> ELSE <<>>

listTasks(t) == inOrder(t.heap, t.root)

tree == [heap |-> heap, root |-> root, idMap |-> idMap]

---------------------------------------------------------------------------
(* Node addresses.  The program never compares, orders or prints a Node*,   *)
(* so a state is stored up to a renaming of addresses: after each public    *)
(* operation the nodes are numbered in in-order sequence.  An idMap entry   *)
(* whose node was freed keeps pointing outside the heap (Freed).            *)

Freed == -1

RECURSIVE inOrderAddrs(_, _)
inOrderAddrs(h, node) ==
    IF node = Nil THEN <<>>
    ELSE inOrderAddrs(h, h[node].left) \o <<node>> \o inOrderAddrs(h, h[node].right)

Renamed(t) ==
    LET order == inOrderAddrs(t.heap, t.root)
        pos(a) == IF a = Nil THEN Nil ELSE CHOOSE i \in 1..Len(order) : order[i] = a
    IN  [heap  |-> [i \in 1..Len(order) |->
                       [t.heap[order[i]] EXCEPT !.left = pos(@), !.right = pos(@)]],
         root  |-> pos(t.root),
         idMap |-> [id \in DOMAIN t.idMap |->
                       IF t.idMap[id] \in DOMAIN t.heap THEN pos(t.idMap[id]) ELSE Freed]]

---------------------------------------------------------------------------
(* Initial state: main() on a fresh, empty database *)

\* the store's health when no fault is pending
Healthy == -1

Init ==
    /\ heap = EmptyTree.heap
    /\ root = Nil
    /\ idMap = EmptyMap
    /\ tasks = <<>>
    /\ db = <<>>
    /\ dbFault = Healthy
    /\ out = <<>>
    /\ crashed = FALSE

SetTree(t) ==
    LET c == Renamed(t)
    IN  /\ heap' = c.heap
        /\ root' = c.root
        /\ idMap' = c.idMap

---------------------------------------------------------------------------
(* DBManager: the table "data" as the sequence of its rows.  Every          *)
(* statement commits on its own.  dbFault is the store's health: Healthy,   *)
(* or the number of statements it still executes before one fails           *)
(* (executeSQL or openDatabase throws); a failure uses the fault up.        *)

\* DBManager::rebuildTasks(ts): DELETE FROM data, then one INSERT per task
dbRebuildTasks(rows, ts, fault) ==
    IF fault = Healthy \/ fault > Len(ts)
    THEN [db |-> ts, failed |-> FALSE,
          fault |-> IF fault = Healthy THEN Healthy ELSE fault - (Len(ts) + 1)]
    ELSE IF fault = 0
    THEN [db |-> rows, failed |-> TRUE, fault |-> Healthy]
    ELSE [db |-> SubSeq(ts, 1, fault - 1), failed |-> TRUE, fault |-> Healthy]

\* DBManager::deleteTask(id): DELETE FROM data WHERE id = ...
dbDeleteTask(rows, id, fault) ==
    IF fault = 0
    THEN [db |-> rows, failed |-> TRUE, fault |-> Healthy]
    ELSE [db |-> SelectSeq(rows, LAMBDA t : t.id # id), failed |-> FALSE,
          fault |-> IF fault = Healthy THEN Healthy ELSE fault - 1]

DbStep(o) ==
    /\ db' = o.db
    /\ dbFault' = o.fault

---------------------------------------------------------------------------
(* The shell, main() of Main.cpp: one action per menu choice *)

\* the comparators of the three std::sort calls, as the keys they compare
byPriority(s) == [i \in 1..Len(s) |-> s[i].priority]

byRemainingHours(s) == [i \in 1..Len(s) |-> s[i].remainingHours]

\* the arrangements of the elements s[i], i \in I, in which no element precedes
\* one with a smaller key k[i]
RECURSIVE sortedOrders(_, _, _)
sortedOrders(s, k, I) ==
    IF I = {} THEN {<<>>}
    ELSE UNION {{<<s[i]>> \o r : r \in sortedOrders(s, k, I \ {i})} :
                   i \in {m \in I : \A j \in I : ~(k[j] < k[m])}}

\* std::sort(s.begin(), s.end(), [](a, b) { return key(a) < key(b); }): the
\* order of elements with equal keys is unspecified
stdSort(s, k) == sortedOrders(s, k, 1..Len(s))

totalRemainingHours(years, months, days, hours) ==
    years * 365 * 24 + months * 30 * 24 + days * 24 + hours

deadlineStr(years, months, days, hours) ==
    ToString(years) \o " year(s), " \o ToString(months) \o " month(s), "
        \o ToString(days) \o " day(s)"
        \o (IF years = 0 /\ months = 0 /\ days = 0
            THEN ", " \o ToString(hours) \o " hour(s)" ELSE "")

\* newPriorityFor with > for >= in the shift of the last branch: the task
\* that holds the new task's priority is not moved
newPriorityForShiftsAbove(ts, status, total) ==
    IF status = "complete"
    THEN [newPriority |-> IF ts # <<>> THEN ts[Len(ts)].priority + 1 ELSE 1, tasks |-> ts]
    ELSE IF ts = <<>>
    THEN [newPriority |-> 1, tasks |-> ts]
    ELSE IF total < ts[1].remainingHours
    THEN [newPriority |-> 1,
          tasks |-> [i \in 1..Len(ts) |-> [ts[i] EXCEPT !.priority = @ + 1]]]
    ELSE IF total >= ts[Len(ts)].remainingHours
    THEN [newPriority |-> ts[Len(ts)].priority + 1, tasks |-> ts]
    ELSE LET hits == {i \in 1..Len(ts) : total < ts[i].remainingHours}
             first == CHOOSE i \in hits : \A j \in hits : i <= j
             np == IF hits = {} THEN 1 ELSE ts[first].priority
         IN  [newPriority |-> np,
              tasks |-> [i \in 1..Len(ts) |->
                            IF ts[i].priority > np
                            THEN [ts[i] EXCEPT !.priority = @ + 1] ELSE ts[i]]]

\* newPriorityFor with > for >= in the comparison with tasks.back(): a task
\* due together with the last one is not appended
newPriorityForStrictBack(ts, status, total) ==
    IF status = "complete"
    THEN [newPriority |-> IF ts # <<>> THEN ts[Len(ts)].priority + 1 ELSE 1, tasks |-> ts]
    ELSE IF ts = <<>>
    THEN [newPriority |-> 1, tasks |-> ts]
    ELSE IF total < ts[1].remainingHours
    THEN [newPriority |-> 1,
          tasks |-> [i \in 1..Len(ts) |-> [ts[i] EXCEPT !.priority = @ + 1]]]
    ELSE IF total > ts[Len(ts)].remainingHours
    THEN [newPriority |-> ts[Len(ts)].priority + 1, tasks |-> ts]
    ELSE LET hits == {i \in 1..Len(ts) : total < ts[i].remainingHours}
             first == CHOOSE i \in hits : \A j \in hits : i <= j
             np == IF hits = {} THEN 1 ELSE ts[first].priority
         IN  [newPriority |-> np,
              tasks |-> [i \in 1..Len(ts) |->
                            IF ts[i].priority >= np
                            THEN [ts[i] EXCEPT !.priority = @ + 1] ELSE ts[i]]]

\* lines 116-148: the priority of the new task and the shifted list
newPriorityFor(ts, status, total) ==
    IF status = "complete"
    THEN [newPriority |-> IF ts # <<>> THEN ts[Len(ts)].priority + 1 ELSE 1, tasks |-> ts]
    ELSE IF ts = <<>>
    THEN [newPriority |-> 1, tasks |-> ts]
    ELSE IF total < ts[1].remainingHours
    THEN [newPriority |-> 1,
          tasks |-> [i \in 1..Len(ts) |-> [ts[i] EXCEPT !.priority = @ + 1]]]
    ELSE IF total >= ts[Len(ts)].remainingHours
    THEN [newPriority |-> ts[Len(ts)].priority + 1, tasks |-> ts]
    ELSE LET hits == {i \in 1..Len(ts) : total < ts[i].remainingHours}
             first == CHOOSE i \in hits : \A j \in hits : i <= j
             np == IF hits = {} THEN 1 ELSE ts[first].priority
         IN  [newPriority |-> np,
              tasks |-> [i \in 1..Len(ts) |->
                            IF ts[i].priority >= np
                            THEN [ts[i] EXCEPT !.priority = @ + 1] ELSE ts[i]]]

\* tree.rebuild(sorted) and DBManager::rebuildTasks(sorted), lines 156-162 and
\* 214-220; an exception of rebuild is not caught and ends the program
Commit(sorted, done) ==
    LET rb == rebuild(tree, sorted)
    IN  /\ SetTree(rb.tree)
        /\ tasks' = sorted
        /\ IF rb.threw # ""
           THEN /\ crashed' = TRUE
                /\ out' = <<rb.threw>>
                /\ UNCHANGED <<db, dbFault>>
           ELSE /\ crashed' = FALSE
                /\ LET o == dbRebuildTasks(db, sorted, dbFault)
                   IN  /\ DbStep(o)
                       /\ out' = IF o.failed THEN <<"Database error", done>> ELSE <<done>>

ShellInsertUpTo(cap, id, desc, category, d) ==
    /\ ~crashed
    /\ IF search(tree, id) # <<>>
       THEN /\ out' = <<"Error: A task with this ID already exists.">>
            /\ UNCHANGED <<heap, root, idMap, tasks, db, dbFault, crashed>>
       ELSE LET years == d[1]
                months == d[2]
                days == d[3]
                hours == IF years = 0 /\ months = 0 /\ days = 0 THEN d[4] ELSE 0
                status == "incomplete"
                total == totalRemainingHours(years, months, days, hours)
                r == newPriorityFor(listTasks(tree), status, total)
                newTask == Task(id, desc, r.newPriority, category, status, total,
                                deadlineStr(years, months, days, hours))
            IN  /\ Len(listTasks(tree)) < cap
                /\ \A i \in 1..Len(r.tasks) : r.tasks[i].priority <= MaxPriority
                /\ r.newPriority <= MaxPriority
                /\ \E sorted \in stdSort(Append(r.tasks, newTask),
                                          byPriority(Append(r.tasks, newTask))) :
                      Commit(sorted, "Task inserted successfully")

ShellInsert(id, desc, category, d) == ShellInsertUpTo(MaxTasks, id, desc, category, d)

\* lines 191-213: partition, sort, concatenate, renumber
renumberOnStatusChange(ts) ==
    LET incompleteTasks == SelectSeq(ts, LAMBDA t : t.status = "incomplete")
        completeTasks == SelectSeq(ts, LAMBDA t : t.status # "incomplete")
    IN  {[i \in 1..Len(ts) |-> [(a \o b)[i] EXCEPT !.priority = i]] :
            a \in stdSort(incompleteTasks, byRemainingHours(incompleteTasks)),
            b \in stdSort(completeTasks, byPriority(completeTasks))}

ShellUpdateStatus(id, completeAnswer) ==
    /\ ~crashed
    /\ IF search(tree, id) = <<>>
       THEN /\ out' = <<"Task not found.">>
            /\ UNCHANGED <<heap, root, idMap, tasks, db, dbFault, crashed>>
       ELSE LET newStatus == IF completeAnswer = "y" THEN "complete" ELSE "incomplete"
                ts == listTasks(tree)
                hits == {i \in 1..Len(ts) : ts[i].id = id}
            IN  IF hits = {}
                THEN /\ tasks' = ts
                     /\ out' = <<"Task not found in list.">>
                     /\ UNCHANGED <<heap, root, idMap, db, dbFault, crashed>>
                ELSE LET first == CHOOSE i \in hits : \A j \in hits : i <= j
                         marked == [ts EXCEPT ![first].status = newStatus]
                     IN  \E renumbered \in renumberOnStatusChange(marked) :
                            Commit(renumbered,
                                   "Task status updated and priorities re-assigned!")

ShellDelete(id) ==
    /\ ~crashed
    /\ LET r == deleteTask(tree, id)
       IN  /\ SetTree(r.tree)
           /\ tasks' = listTasks(r.tree)
           /\ IF r.threw # ""
              THEN /\ out' = <<r.threw>>
                   /\ UNCHANGED <<db, dbFault>>
              ELSE LET o == dbDeleteTask(db, id, dbFault)
                   IN  /\ DbStep(o)
                       /\ out' = IF o.failed THEN <<"SQL error">> ELSE <<"Task deleted.">>
    /\ UNCHANGED crashed

ShellSearch(id) ==
    /\ ~crashed
    /\ out' = IF search(tree, id) # <<>> THEN <<"Found Task:">> ELSE <<"Task not found.">>
    /\ UNCHANGED <<heap, root, idMap, tasks, db, dbFault, crashed>>

ShellList ==
    /\ ~crashed
    /\ tasks' = listTasks(tree)
    /\ out' = <<"----- TASK LIST -----">>
    /\ UNCHANGED <<heap, root, idMap, db, dbFault, crashed>>

Next ==
    \/ \E id \in Ids, desc \in Descriptions, category \in Categories, d \in DeadlineInputs :
          ShellInsert(id, desc, category, d)
    \/ \E id \in Ids, completeAnswer \in {"y", "n"} : ShellUpdateStatus(id, completeAnswer)
    \/ \E id \in Ids : ShellDelete(id)
    \/ \E id \in Ids : ShellSearch(id)
    \/ ShellList

\* The shell on a store that answers every call (dbFault stays Healthy).  A
\* failure of the store never reaches the index: the shell catches it and
\* goes on, so these are all the runs of the index.
Spec == Init /\ [][Next]_vars

\* Runs of up to MaxTasks + 1 tasks in which the user only inserts and marks
\* tasks complete
NextWide ==
    \/ \E id \in WideIds, desc \in Descriptions, category \in Categories,
          d \in DeadlineInputs : ShellInsertUpTo(MaxTasks + 1, id, desc, category, d)
    \/ \E id \in WideIds : ShellUpdateStatus(id, "y")

SpecWide == Init /\ [][NextWide]_vars

\* Runs from the empty index in which the user only inserts, each deadline
\* given in hours
NextInserts ==
    \E id \in WideIds, desc \in Descriptions, category \in Categories, d \in HourInputs :
        ShellInsertUpTo(MaxTasks + 1, id, desc, category, d)

SpecInserts == Init /\ [][NextInserts]_vars

---------------------------------------------------------------------------
(* The AVLTree class driven directly through its public interface *)

ApiTask(i, p) == Task(i, "desc", p, "cat", "incomplete", 5, "N/A")

ApiTasks == {ApiTask(i, p) : i \in WideIds, p \in 1..MaxKey}

RebuildTasks == {ApiTask(i, p) : i \in Ids, p \in 1..MaxRebuildLen}

RECURSIVE SeqsUpTo(_, _)
SeqsUpTo(S, n) ==
    IF n = 0 THEN {<<>>}
    ELSE LET shorter == SeqsUpTo(S, n - 1)
         IN  shorter \cup {Append(s, x) : s \in {q \in shorter : Len(q) = n - 1}, x \in S}

ApiInsert(task) ==
    /\ Cardinality(DOMAIN heap) < MaxNodes
    /\ LET r == insert(tree, task)
       IN  /\ SetTree(r.tree)
           /\ out' = IF r.threw = "" THEN <<>> ELSE <<r.threw>>
    /\ UNCHANGED <<tasks, db, dbFault, crashed>>

ApiRebuild(ts) ==
    /\ LET r == rebuild(tree, ts)
       IN  /\ SetTree(r.tree)
           /\ out' = IF r.threw = "" THEN <<>> ELSE <<r.threw>>
    /\ UNCHANGED <<tasks, db, dbFault, crashed>>

\* rebuild(listTasks())
ApiRebuildListed ==
    /\ LET r == rebuild(tree, listTasks(tree))
       IN  /\ SetTree(r.tree)
           /\ out' = IF r.threw = "" THEN <<>> ELSE <<r.threw>>
    /\ UNCHANGED <<tasks, db, dbFault, crashed>>

ApiDeleteTask(id) ==
    /\ LET r == deleteTask(tree, id)
       IN  /\ SetTree(r.tree)
           /\ out' = IF r.threw = "" THEN <<>> ELSE <<r.threw>>
    /\ UNCHANGED <<tasks, db, dbFault, crashed>>

\* the lists handed to rebuild: tasks with distinct ids, any priorities
RebuildLists ==
    {ts \in SeqsUpTo(RebuildTasks, MaxRebuildLen) :
        \A i, j \in 1..Len(ts) : ts[i].id = ts[j].id => i = j}

NextApi ==
    \/ \E task \in ApiTasks : ApiInsert(task)
    \/ \E ts \in RebuildLists : ApiRebuild(ts)
    \/ ApiRebuildListed
    \/ \E id \in WideIds : ApiDeleteTask(id)

SpecApi == Init /\ [][NextApi]_vars

---------------------------------------------------------------------------
(* Properties *)

\* the live tasks, in the order listTasks() returns them
live == listTasks(tree)

LiveIds == {live[i].id : i \in 1..Len(live)}

\* the last line the command printed
said(o, line) == o # <<>> /\ o[Len(o)] = line

DuplicateId == "Task with the same ID already exists."

(* C1: in every state the shell reaches, the priorities of the live tasks  *)
(* are exactly 1..N, N the number of live tasks (no gap after a delete).   *)
C1_Density ==
    {live[i].priority : i \in 1..Len(live)} = 1..Len(live)

(* C2: search(id) returns the record the tree holds for every id a live    *)
(* task carries, and nothing for every other id.                           *)
C2_MapMatchesTree ==
    \A id \in WideIds :
        IF id \in LiveIds
        THEN /\ search(tree, id) # <<>>
             /\ \E i \in 1..Len(live) : live[i].id = id /\ live[i] = search(tree, id)[1]
        ELSE search(tree, id) = <<>>

(* C3: an insert whose id a live task already carries is refused, by the   *)
(* shell's search and by AVLTree::insert, with the duplicate-id error and  *)
(* an unchanged index; no two live tasks share an id.                      *)
C3_DuplicateIdRejected ==
    /\ \A i, j \in 1..Len(live) : live[i].id = live[j].id => i = j
    /\ \A id \in LiveIds :
          /\ search(tree, id) # <<>>
          /\ \A p \in 1..MaxPriority :
                /\ insert(tree, ApiTask(id, p)).threw = DuplicateId
                /\ insert(tree, ApiTask(id, p)).tree = tree

(* C4: every incomplete live task has a smaller priority than every        *)
(* complete live task.                                                     *)
C4_PartitionOrder ==
    \A i, j \in 1..Len(live) :
        live[i].status = "incomplete" /\ live[j].status = "complete"
            => live[i].priority < live[j].priority

(* C5: of two incomplete live tasks, the one with the smaller priority     *)
(* has no more remaining hours than the other.                             *)
C5_DeadlineOrder ==
    \A i, j \in 1..Len(live) :
        /\ live[i].status = "incomplete"
        /\ live[j].status = "incomplete"
        /\ live[i].priority < live[j].priority
        => live[i].remainingHours <= live[j].remainingHours

Updated == "Task status updated and priorities re-assigned!"

\* the positions of the tasks of ts that carry id
carrying(ts, id) == {i \in 1..Len(ts) : ts[i].id = id}

UniqueIds(ts) == \A i, j \in 1..Len(ts) : ts[i].id = ts[j].id => i = j

(* C6: a task that is complete stays complete for as long as it is live,   *)
(* whatever command the shell runs next.                                   *)
C6_NoWayBack ==
    [][\A i \in 1..Len(live) :
          (UniqueIds(live) /\ live[i].status = "complete")
              => \A j \in carrying(live', live[i].id) : live'[j].status = "complete"]_vars

(* C7: a status change that turns an incomplete task complete gives it a   *)
(* priority greater than that of every task that was complete before, and  *)
(* the tasks that were complete before keep their relative order.          *)
C7_AppendAtEnd ==
    [][(said(out', Updated) /\ UniqueIds(live))
          => \A i, k \in 1..Len(live) :
                live[k].status = "complete"
                    => \A j \in carrying(live', live[i].id),
                          m \in carrying(live', live[k].id) :
                          /\ (live[i].status = "incomplete" /\ live'[j].status = "complete")
                                => live'[m].priority < live'[j].priority
                          /\ (live[i].status = "complete" /\ live'[j].status = "complete"
                                  /\ live'[m].status = "complete"
                                  /\ live[i].priority < live[k].priority)
                                => live'[j].priority < live'[m].priority]_vars

(* C8: a status change keeps the relative order of any two incomplete      *)
(* tasks whose remaining hours are equal.                                  *)
C8_StableTies ==
    [][(said(out', Updated) /\ UniqueIds(live))
          => \A i, k \in 1..Len(live) :
                \A j \in carrying(live', live[i].id), m \in carrying(live', live[k].id) :
                    (/\ live'[j].status = "incomplete"
                     /\ live'[m].status = "incomplete"
                     /\ live'[j].remainingHours = live'[m].remainingHours
                     /\ live[i].priority < live[k].priority)
                        => live'[j].priority < live'[m].priority]_vars

\* the height of the subtree at node, counted from the links
RECURSIVE realHeight(_, _)
realHeight(h, node) ==
    IF node = Nil THEN 0
    ELSE 1 + Max(realHeight(h, h[node].left), realHeight(h, h[node].right))

\* ceil(1.44 * log2(n + 2)) for n = 0, 1, 2, ...
HeightBound(n) == <<2, 3, 3, 4, 4, 5, 5, 5, 5, 5, 6>>[n + 1]

(* C9: at every node the subtree heights differ by at most 1, the stored   *)
(* height is the real one, and the height of a tree of N tasks is at most  *)
(* ceil(1.44 * log2(N + 2)).                                               *)
C9_Balanced ==
    /\ \A n \in DOMAIN heap :
          /\ realHeight(heap, heap[n].left) - realHeight(heap, heap[n].right) \in {-1, 0, 1}
          /\ heap[n].height = realHeight(heap, n)
    /\ realHeight(heap, root) <= HeightBound(Len(live))

\* a tree of three nodes left by deleteTask taking a node with two children
\* out of a tree of four
C9_Witness ==
    /\ Len(live) = 3
    /\ heap[root].left # Nil /\ heap[root].right # Nil
    /\ Cardinality(DOMAIN idMap) = 2
    /\ UniqueIds(live)

(* C10: rebuild(listTasks()) completes without error and leaves            *)
(* listTasks() and the result of search(id), for every id, as they were.   *)
C10_RoundTrip ==
    LET r == rebuild(tree, listTasks(tree))
    IN  /\ r.threw = ""
        /\ listTasks(r.tree) = listTasks(tree)
        /\ \A id \in WideIds : search(r.tree, id) = search(tree, id)

NotFound == "Task ID not found."

DuplicatePriority == "Duplicate priority encountered."

\* the nodes reachable from the root
Reachable == {inOrderAddrs(heap, root)[i] : i \in 1..Len(inOrderAddrs(heap, root))}

(* C11: every entry id -> node of idMap points to a node reachable from    *)
(* the root whose task carries that id, after any sequence of insert,      *)
(* rebuild and deleteTask (two-child deletions included).                  *)
C11_NoDanglingEntry ==
    \A id \in DOMAIN idMap :
        /\ idMap[id] \in Reachable
        /\ idMap[id] \in DOMAIN heap
        /\ heap[idMap[id]].task.id = id

\* after a two-child deletion: the successor's task is live in the node of
\* the deleted task and two other tasks are still in the map
C11_Witness ==
    /\ out = <<>>
    /\ Len(live) = 3
    /\ \E i \in 1..Len(live) : live[i].id \notin DOMAIN idMap
    /\ \E id \in DOMAIN idMap, i \in 1..Len(live) : live[i].id = id /\ idMap[id] # root

(* C12: deleteTask(id) with an id that no live task carries throws the     *)
(* not-found error and leaves the tree (shape, keys, payloads) and the id  *)
(* map as they were.                                                       *)
C12_DeleteAbsent ==
    \A id \in WideIds \ LiveIds :
        /\ deleteTask(tree, id).threw = NotFound
        /\ deleteTask(tree, id).tree = tree

\* deleteTask has just thrown not-found on a tree of three tasks whose ids
\* are all in the map: the id it was given is carried by no live task
C12_Witness ==
    /\ out = <<NotFound>>
    /\ Len(live) = 3
    /\ UniqueIds(live)
    /\ LiveIds = DOMAIN idMap

\* the keys of the tree
Keys == {heap[n].key : n \in Reachable}

(* C13: insert(task) with an id no live task carries and a priority that   *)
(* is a key of the tree throws the duplicate-priority error and leaves the *)
(* tree and the id map as they were (no node, no entry for task.id).       *)
C13_DuplicatePriority ==
    \A id \in WideIds \ LiveIds, p \in Keys :
        /\ insert(tree, ApiTask(id, p)).threw = DuplicatePriority
        /\ insert(tree, ApiTask(id, p)).tree = tree

\* a call has just thrown duplicate-priority and left three tasks: rebuild
\* leaves fewer when it throws, so the call was insert; every live id is in
\* the map, so the id it was given was fresh
C13_Witness ==
    /\ out = <<DuplicatePriority>>
    /\ Len(live) = MaxRebuildLen + 1
    /\ UniqueIds(live)
    /\ LiveIds = DOMAIN idMap
    /\ WideIds \ LiveIds # {}

\* s without its i-th element
Without(s, i) == SubSeq(s, 1, i - 1) \o SubSeq(s, i + 1, Len(s))

(* C18: deleteTask(id) on the id of a live task removes exactly that task  *)
(* and renumbers nothing: listTasks() afterwards is listTasks() before     *)
(* with that one task taken out, every other task with all its fields and  *)
(* in its place, whatever the number of children of the deleted node.      *)
C18_DeleteFrame ==
    \A id \in LiveIds :
        /\ deleteTask(tree, id).threw = ""
        /\ \E i \in carrying(live, id) :
              listTasks(deleteTask(tree, id).tree) = Without(live, i)

\* the keys of the subtree at node
RECURSIVE keysBelow(_, _)
keysBelow(h, node) ==
    IF node = Nil THEN {}
    ELSE {h[node].key} \cup keysBelow(h, h[node].left) \cup keysBelow(h, h[node].right)

(* C19: the tree is a binary search tree on priority with unique keys and  *)
(* every node's key is its task's priority, so listTasks() returns each    *)
(* live task once, in strictly ascending priority order.                   *)
C19_SearchTree ==
    /\ \A n \in Reachable :
          /\ heap[n].key = heap[n].task.priority
          /\ \A k \in keysBelow(heap, heap[n].left) : k < heap[n].key
          /\ \A k \in keysBelow(heap, heap[n].right) : k > heap[n].key
    /\ Len(live) = Cardinality(Reachable)
    /\ \A i \in 1..(Len(live) - 1) : live[i].priority < live[i + 1].priority

\* after deleteTask on a root with two children: the root holds the task
\* and the key of its successor, between the keys of its two children
C19_Witness ==
    /\ Len(live) = 3
    /\ root # Nil
    /\ heap[root].task.id \notin DOMAIN idMap
    /\ heap[root].key = 3
    /\ heap[root].left # Nil /\ heap[heap[root].left].key = 1
    /\ heap[root].right # Nil /\ heap[heap[root].right].key = 4

Inserted == "Task inserted successfully"

\* ts holds priorities 1..N in ascending order of remainingHours
DenseByDeadline(ts) ==
    /\ \A i \in 1..Len(ts) : ts[i].priority = i
    /\ \A i \in 1..(Len(ts) - 1) : ts[i].remainingHours <= ts[i + 1].remainingHours

(* C14: with inserts only, from the empty index, every insert leaves       *)
(* listTasks() in ascending remainingHours with priorities 1..N: the new   *)
(* task stands right before the first task with strictly more remaining    *)
(* hours (after all with fewer or the same), every task from that rank on  *)
(* has its priority raised by 1, and the old tasks keep their order.       *)
C14_InsertRank ==
    [][said(out', Inserted)
          => /\ DenseByDeadline(live')
             /\ Len(live') = Len(live) + 1
             /\ \E k \in 1..Len(live') :
                   /\ live'[k].id \notin LiveIds
                   /\ live'[k].priority = k
                   /\ \A i \in 1..(k - 1) :
                         /\ live'[i] = live[i]
                         /\ live[i].remainingHours <= live'[k].remainingHours
                   /\ \A i \in k..Len(live) :
                         /\ live'[i + 1] = [live[i] EXCEPT !.priority = @ + 1]
                         /\ live[i].remainingHours > live'[k].remainingHours]_vars

\* Scenario A of the spec: 10 h, 5 h and 20 h inserted, listed as 5, 10, 20
C14_Witness ==
    /\ said(out, Inserted)
    /\ Len(live) = 3
    /\ [i \in 1..3 |-> live[i].remainingHours] = <<5, 10, 20>>
    /\ [i \in 1..3 |-> live[i].id] = <<"b", "a", "c">>
    /\ [i \in 1..3 |-> live[i].priority] = <<1, 2, 3>>

(* C17: the remainingHours of every live task is >= 0, whatever integers  *)
(* the shell was given for years, months, days and hours.                  *)
C17_NonNegativeHours ==
    \A i \in 1..Len(live) : live[i].remainingHours >= 0

\* ts is all its incomplete tasks in ascending remainingHours, then all its
\* complete tasks, with priorities 1..N by position
PolicyOrder(ts) ==
    /\ \A i \in 1..Len(ts) : ts[i].priority = i
    /\ \A i, j \in 1..Len(ts) :
          i < j => \/ ts[j].status = "complete"
                   \/ /\ ts[i].status = "incomplete"
                      /\ ts[i].remainingHours <= ts[j].remainingHours

(* C15: right after a status-change operation on the id of a live task,    *)
(* from any reachable state (gaps in the priorities, order against the     *)
(* policy), the live tasks are the incomplete ones in ascending            *)
(* remainingHours, then the complete ones, with priorities 1..N, and the   *)
(* set of live ids is what it was.                                         *)
C15_StatusChangeRenumbers ==
    [][(\E id \in LiveIds, completeAnswer \in {"y", "n"} :
            ShellUpdateStatus(id, completeAnswer))
          => /\ PolicyOrder(live')
             /\ LiveIds' = LiveIds]_vars

\* what a record of the store is compared by
Stored(t) == [id |-> t.id, priority |-> t.priority, status |-> t.status]

Records(ts) == {Stored(ts[i]) : i \in 1..Len(ts)}

Deleted == "Task deleted."

(* C16: after every shell insert, status change or delete whose call to    *)
(* the store succeeded, the records of the store are the tasks of          *)
(* listTasks(): same ids, same priorities, same statuses.                  *)
C16_StoreInSync ==
    (out = <<Inserted>> \/ out = <<Updated>> \/ out = <<Deleted>>)
        => /\ Records(db) = Records(live)
           /\ Len(db) = Len(live)

\* the fields a renumbering must leave alone, and the status
Kept(t) == [id |-> t.id, remainingHours |-> t.remainingHours,
            description |-> t.description, category |-> t.category,
            deadlineDetails |-> t.deadlineDetails, status |-> t.status]

\* a and b hold the same tasks, each as often, up to the priorities
SameTasks(a, b) ==
    /\ Len(a) = Len(b)
    /\ \A i \in 1..Len(a) :
          Cardinality({j \in 1..Len(a) : Kept(a[j]) = Kept(a[i])})
              = Cardinality({j \in 1..Len(b) : Kept(b[j]) = Kept(a[i])})

(* C20: a shell insert or status change alters priorities only (and the    *)
(* status of the one task a status change is aimed at): every task that    *)
(* was live keeps its id, remainingHours, description, category and        *)
(* deadlineDetails, none disappears, and the set of live ids grows by      *)
(* exactly the inserted id on insert and stays the same on status change.  *)
C20_FrameOfRenumbering ==
    [][/\ said(out', Inserted)
              => \E k \in 1..Len(live') :
                    /\ SameTasks(Without(live', k), live)
                    /\ live'[k].id \notin LiveIds
                    /\ LiveIds' = LiveIds \cup {live'[k].id}
       /\ said(out', Updated)
              => /\ LiveIds' = LiveIds
                 /\ \E i \in 1..Len(live), s \in {"complete", "incomplete"} :
                       SameTasks(live', [live EXCEPT ![i].status = s])]_vars

(* C21: whatever the user does from the empty index, the list the shell   *)
(* hands to AVLTree::rebuild holds no priority twice (gaps left by deletes *)
(* included), so rebuild never throws the duplicate-priority error and the *)
(* index is never left cleared or half-built: it holds the whole list.     *)
C21_RebuildNeverThrows ==
    /\ ~crashed
    /\ ~said(out, DuplicatePriority)
    /\ (said(out, Inserted) \/ said(out, Updated))
          => /\ \A i, j \in 1..Len(tasks) :
                   tasks[i].priority = tasks[j].priority => i = j
             /\ live = tasks

\* an insert between two tasks whose priorities had a gap left by a delete
C21_Witness ==
    /\ said(out, Inserted)
    /\ ~crashed
    /\ live = tasks
    /\ [i \in 1..Len(live) |-> live[i].priority] = <<1, 3, 4>>
    /\ [i \in 1..Len(live) |-> live[i].remainingHours] = <<5, 5, 24>>

====
